---- MODULE Spec2Model ----
(***************************************************************************)
(* Derma-AI: a Streamlit chat script (app.py) and a spreadsheet seeding    *)
(* script (seed_data.py).                                                  *)
(*                                                                         *)
(* Text.  A Python str is modelled as a sequence of chunks, each chunk a   *)
(* piece of text; the str is the concatenation of its chunks.  The         *)
(* sentinel "SEARCH:" is one chunk and no other chunk shares a character   *)
(* with it, so `in`, startswith, replace, split and strip computed chunk   *)
(* by chunk agree with Python's character-level results on these texts.    *)
(*                                                                         *)
(* Optional values.  None is the empty tuple and a present value x is the  *)
(* one-element tuple <<x>>, so that None differs from the empty string.    *)
(***************************************************************************)
EXTENDS Integers, Sequences, FiniteSets, TLC

VARIABLES
    messages,   \* st.session_state.messages
    logs,       \* rows of the interaction_logs worksheet appended by the app
    turns,      \* number of user turns processed so far
    lastTurn,   \* record of what the latest script run did (observation only)
    pText,      \* response parser: the generated text under examination
    pResult,    \* response parser: outcome of lines 198-200 on pText
    clock,      \* seconds since the process started
    store,      \* current contents of the spreadsheet read by get_user_data
    cache,      \* st.cache_data entries of get_user_data, per user id
    fetched,    \* per user id, the latest store-contacting call (observation)
    lastGet,    \* record of the latest get_user_data call (observation)
    sheet,      \* seed_data: the Derma-AI-DB spreadsheet, None when absent
    seedRuns,   \* seed_data: number of runs so far
    seedRun     \* seed_data: record of the latest run (observation)

vars == <<messages, logs, turns, lastTurn, pText, pResult, clock, store, cache,
          fetched, lastGet, sheet, seedRuns, seedRun>>

chatVars == <<messages, logs, turns, lastTurn>>
parserVars == <<pText, pResult>>
cacheVars == <<clock, store, cache, fetched, lastGet>>
seedVars == <<sheet, seedRuns, seedRun>>

----------------------------------------------------------------------------
\* Bounds of the model.

MaxTurns == 2
MaxLen == 4
MaxClock == 900
MaxSeedRuns == 5
MaxLogRows == 2

----------------------------------------------------------------------------
\* Generic helpers.

None == <<>>
Some(x) == <<x>>

SeqsUpTo(S, n) == UNION {[1..k -> S] : k \in 0..n}

Last(s) == s[Len(s)]

Contains(t, c) == \E i \in 1..Len(t) : t[i] = c

FirstIndex(t, c) == CHOOSE i \in 1..Len(t) : t[i] = c /\ \A j \in 1..(i-1) : t[j] # c

----------------------------------------------------------------------------
\* Python str operations used by app.py, on chunk sequences.

SENTINEL == "SEARCH:"
NL == "\n"
SPACE == " "

IsSpace(c) == c \in {SPACE, NL}

\* str.split('\n')
RECURSIVE Split(_)
Split(t) ==
    IF ~Contains(t, NL) THEN <<t>>
    ELSE LET i == FirstIndex(t, NL)
         IN <<SubSeq(t, 1, i - 1)>> \o Split(SubSeq(t, i + 1, Len(t)))

\* str.startswith("SEARCH:")
StartsWith(line, tok) == Len(line) >= 1 /\ line[1] = tok

\* str.replace("SEARCH:", ""): every occurrence is removed
Replace(line, tok) == SelectSeq(line, LAMBDA c : c # tok)

RECURSIVE LStrip(_)
LStrip(t) == IF t # <<>> /\ IsSpace(Head(t)) THEN LStrip(Tail(t)) ELSE t

RECURSIVE RStrip(_)
RStrip(t) ==
    IF t # <<>> /\ IsSpace(Last(t)) THEN RStrip(SubSeq(t, 1, Len(t) - 1)) ELSE t

\* str.strip()
Strip(t) == RStrip(LStrip(t))

\* ", ".join(items) and "\n".join(items), items being texts
RECURSIVE Join(_, _)
Join(sep, items) ==
    IF items = <<>> THEN <<>>
    ELSE IF Len(items) = 1 THEN items[1]
    ELSE items[1] \o <<sep>> \o Join(sep, Tail(items))

----------------------------------------------------------------------------
\* The spreadsheet as the app reads it, and get_user_data's body.

USER_ID == "12345678-1234-1234-1234-1234567890ab"
OTHER_ID == "00000000-0000-0000-0000-000000000000"
UserIds == {USER_ID, OTHER_ID}

\* json.dumps / json.loads of a column value
JsonDumps(v) == [json |-> v]
JsonLoads(j) == j.json

ProfileRow(uid, barrier) ==
    [user_id |-> uid,
     barrier_status |-> barrier,
     current_concerns_json |-> JsonDumps("{diagnosis: Stress-Induced Inflammatory Acne...}"),
     active_medications_json |-> JsonDumps(<<"CNN 50">>),
     avoid_ingredients_json |-> JsonDumps(<<"SA Cleansers">>)]

AuditRow(uid) ==
    [user_id |-> uid, product_name |-> "Micro-Peeling gels", category |-> "Cleanser",
     status |-> "Unsafe", notes |-> "Compromises barrier."]

\* The rows seed_data.py writes.
StoreSeeded ==
    [ok |-> TRUE,
     skin_profile |-> <<ProfileRow(USER_ID, "Compromised")>>,
     routine_audit |-> <<AuditRow(USER_ID)>>]

\* The spreadsheet after an external edit.
StoreEdited ==
    [ok |-> TRUE,
     skin_profile |-> <<ProfileRow(OTHER_ID, "Compromised"), ProfileRow(USER_ID, "Healthy")>>,
     routine_audit |-> <<AuditRow(USER_ID)>>]

\* The spreadsheet unreachable, or not shared with the service account.
StoreDown == [ok |-> FALSE, skin_profile |-> <<>>, routine_audit |-> <<>>]

Stores == {StoreSeeded, StoreEdited, StoreDown}

NoData == [profile |-> None, audit |-> None]

\* Body of get_user_data: the first skin_profile row of the user, the user's
\* routine_audit rows, the JSON columns deserialised; (None, None) on any
\* exception (store unreachable, no records in a worksheet, no row of the user).
FetchUserData(s, user_id) ==
    LET rows == SelectSeq(s.skin_profile, LAMBDA r : r.user_id = user_id)
        audit == SelectSeq(s.routine_audit, LAMBDA r : r.user_id = user_id)
    IN IF ~s.ok \/ s.skin_profile = <<>> \/ rows = <<>> \/ s.routine_audit = <<>>
       THEN NoData
       ELSE [profile |-> Some([user_id |-> rows[1].user_id,
                               barrier_status |-> rows[1].barrier_status,
                               current_concerns |-> JsonLoads(rows[1].current_concerns_json),
                               active_medications |-> JsonLoads(rows[1].active_medications_json),
                               avoid_ingredients |-> JsonLoads(rows[1].avoid_ingredients_json)]),
             audit |-> Some(audit)]

----------------------------------------------------------------------------
\* construct_system_prompt

GENERIC_PROMPT == <<"You are a helpful dermatological assistant.">>

AuditLine(item) ==
    <<"- ", item.product_name, " (", item.status, "): ", item.notes>>

construct_system_prompt(skin_profile, routine_audit) ==
    IF skin_profile = None THEN GENERIC_PROMPT
    ELSE LET p == skin_profile[1]
             texts(l) == [i \in 1..Len(l) |-> <<l[i]>>]
             audit_str == Join(NL, [i \in 1..Len(routine_audit[1]) |->
                                        AuditLine(routine_audit[1][i])])
         IN <<"You are a highly personalized, localized Canadian Dermatological Assistant for Devashree. GUARDRAILS. Barrier Status: ">>
            \o <<p.barrier_status, " Active Medications: ">>
            \o Join(", ", texts(p.active_medications))
            \o <<" Detailed Concerns: ", p.current_concerns, " Ingredients to Avoid: ">>
            \o Join(", ", texts(p.avoid_ingredients))
            \o <<" PRODUCT DATABASE: Routine Audit ">>
            \o audit_str
            \o <<" YOUR PROTOCOL">>

----------------------------------------------------------------------------
\* search_amazon

num_results == 3

U_PRODUCT == <<"https://", "amazon.ca", "/dp/", "B000123">>
U_LISTING == <<"https://", "amazon.ca", "/s?k=foo">>
U_OTHER == <<"https://", "other.com", "/x">>
Urls == {U_PRODUCT, U_LISTING, U_OTHER}

\* What googlesearch.search does: it raises, or yields up to num_results URLs.
SearchOutcomes ==
    {[raised |-> TRUE, results |-> <<>>]}
    \cup {[raised |-> FALSE, results |-> r] : r \in SeqsUpTo(Urls, num_results)}

NoSearch == [raised |-> FALSE, results |-> <<>>]

\* The test of line 137 with `or` in place of `and`
IsProductLink_or(url) == Contains(url, "amazon.ca") \/ Contains(url, "/dp/")

\* if "amazon.ca" in url and "/dp/" in url
IsProductLink(url) == Contains(url, "amazon.ca") /\ Contains(url, "/dp/")

\* The first result that is a product link, None when there is none or the
\* search raised.
search_amazon(query, outcome) ==
    IF outcome.raised THEN None
    ELSE LET hits == SelectSeq(outcome.results, IsProductLink)
         IN IF hits = <<>> THEN None ELSE Some(hits[1])

----------------------------------------------------------------------------
\* log_interaction

LogRow(user_id, input_type, query, analysis, severity, product_name, product_link) ==
    [user_id |-> user_id, input_type |-> input_type, query |-> query,
     analysis |-> analysis, severity |-> severity,
     product_name |-> product_name, product_link |-> product_link]

\* log_interaction with the exception handler missing
log_interaction_raises(rows, row, storeOk) ==
    [logs |-> IF storeOk THEN Append(rows, row) ELSE rows, raised |-> ~storeOk]

\* Appends the row; when the worksheet lookup or append_row raises, the
\* exception is caught, a warning is shown and the call returns.
log_interaction(rows, row, storeOk) ==
    [logs |-> IF storeOk THEN Append(rows, row) ELSE rows, raised |-> FALSE]


----------------------------------------------------------------------------
\* Response parsing, lines 198-200 of app.py.

NoQuery == [status |-> "none", query |-> <<>>]

\* if "SEARCH:" in full_response: the first line that starts with the token,
\* every occurrence of the token removed, stripped.  The [0] raises IndexError
\* when the token occurs but no line starts with it.
ParseResponse(full_response) ==
    IF ~Contains(full_response, SENTINEL) THEN NoQuery
    ELSE LET lines == SelectSeq(Split(full_response),
                                LAMBDA line : StartsWith(line, SENTINEL))
         IN IF lines = <<>>
            THEN [status |-> "raised", query |-> <<>>]
            ELSE [status |-> "query", query |-> Strip(Replace(lines[1], SENTINEL))]

----------------------------------------------------------------------------
\* The chat script: one run of app.py per user turn.

FALLBACK == <<"Sorry, I encountered an error.">>

Prompts == {<<"my cheeks are red and itchy">>}

R_PLAIN == <<"Mild irritation.">>
R_SEARCH == <<"Mild irritation.", NL, SENTINEL, SPACE, "gentle moisturizer ceramide under $25 CAD">>
R_MIDLINE == <<"I would run a", SPACE, SENTINEL, SPACE, "for a moisturizer.">>
Responses == {R_PLAIN, R_SEARCH, R_MIDLINE}

\* What the generation endpoint does: it raises (before or while streaming),
\* or the concatenation of the streamed chunks is one of the responses.
GenOutcomes ==
    {[raised |-> TRUE, text |-> <<>>]}
    \cup {[raised |-> FALSE, text |-> r] : r \in Responses}

UploadedFile == [name |-> "cheek.png", type |-> "image/png", data |-> "bytes"]

IMAGE_INSTRUCTION == <<"Analyze this image of my skin and tell me what you see.">>

UserMessage(content) == [role |-> "user", content |-> content]
AssistantMessage(content) == [role |-> "assistant", content |-> content]

ProductMessage(product_link) ==
    AssistantMessage(<<"Here is a recommended product: [View on Amazon.ca](">>
                     \o product_link \o <<")">>)

\* gemini_history, line 185
GeminiHistory(msgs) ==
    [i \in 1..Len(msgs) |->
        [role |-> IF msgs[i].role = "user" THEN "user" ELSE "model",
         parts |-> <<msgs[i].content>>]]

NoTurn ==
    [kind |-> "none", prompt |-> <<>>, profile |-> None, system_prompt |-> <<>>,
     before |-> <<>>, sentHistory |-> <<>>, sentParts |-> <<>>,
     genRaised |-> FALSE, full_response |-> <<>>, search |-> NoSearch,
     searched |-> FALSE, logArgs |-> <<>>, storeOk |-> TRUE, crashed |-> FALSE]

\* Lines 198-212: the script after the generation call.  m1 is the transcript
\* with the user message appended.
AfterGeneration(m1, rows, prompt, full_response, so, storeOk) ==
    LET parsed == ParseResponse(full_response)
    IN IF parsed.status = "raised"
       THEN [messages |-> m1, logs |-> rows, logArgs |-> <<>>, crashed |-> TRUE]
       ELSE LET product_link == IF parsed.status = "query"
                                THEN search_amazon(parsed.query, so) ELSE None
                m2 == IF product_link # None
                      THEN Append(m1, ProductMessage(product_link[1])) ELSE m1
                row == IF parsed.status = "query"
                       THEN LogRow(USER_ID, "text", prompt, full_response, 5,
                                   Some(parsed.query), product_link)
                       ELSE LogRow(USER_ID, "text", prompt, full_response, 3, None, None)
                lr == log_interaction(rows, row, storeOk)
            IN IF lr.raised
               THEN [messages |-> m2, logs |-> lr.logs, logArgs |-> <<row>>,
                     crashed |-> TRUE]
               ELSE [messages |-> Append(m2, AssistantMessage(full_response)),
                     logs |-> lr.logs, logArgs |-> <<row>>, crashed |-> FALSE]

\* A run in which st.chat_input returned a prompt (lines 155, 175-212).
TextTurn ==
    /\ turns < MaxTurns
    /\ \E prompt \in Prompts, s \in Stores, gen \in GenOutcomes, storeOk \in BOOLEAN :
         LET data == FetchUserData(s, USER_ID)
             m1 == Append(messages, UserMessage(prompt))
             system_prompt == construct_system_prompt(data.profile, data.audit)
             gemini_history == GeminiHistory(m1)
             full_response == IF gen.raised THEN FALLBACK ELSE gen.text
             searching == ParseResponse(full_response).status = "query"
         IN \E so \in (IF searching THEN SearchOutcomes ELSE {NoSearch}) :
              LET r == AfterGeneration(m1, logs, prompt, full_response, so, storeOk)
              IN /\ messages' = r.messages
                 /\ logs' = r.logs
                 /\ turns' = turns + 1
                 /\ lastTurn' =
                      [kind |-> "text", prompt |-> prompt, profile |-> data.profile,
                       system_prompt |-> system_prompt, before |-> messages,
                       sentHistory |-> gemini_history, sentParts |-> <<prompt>>,
                       genRaised |-> gen.raised, full_response |-> full_response,
                       search |-> so, searched |-> searching,
                       logArgs |-> r.logArgs, storeOk |-> storeOk,
                       crashed |-> r.crashed]
    /\ UNCHANGED <<parserVars, cacheVars, seedVars>>

\* A run in which a file is uploaded and "Analyze Image" was pressed
\* (lines 155, 215-232).
ImageTurn ==
    /\ turns < MaxTurns
    /\ \E s \in Stores, gen \in GenOutcomes :
         LET data == FetchUserData(s, USER_ID)
             system_prompt == construct_system_prompt(data.profile, data.audit)
             image_part == <<[mime_type |-> UploadedFile.type, data |-> UploadedFile.data]>>
             prompt_parts == <<system_prompt, IMAGE_INSTRUCTION, image_part>>
             user_content == <<" (Image: ", UploadedFile.name, ")">>
         IN /\ messages' = IF gen.raised THEN messages
                           ELSE messages \o <<UserMessage(user_content),
                                              AssistantMessage(gen.text)>>
            /\ logs' = logs
            /\ turns' = turns + 1
            /\ lastTurn' =
                 [kind |-> "image", prompt |-> user_content, profile |-> data.profile,
                  system_prompt |-> system_prompt, before |-> messages,
                  sentHistory |-> <<>>, sentParts |-> prompt_parts,
                  genRaised |-> gen.raised,
                  full_response |-> IF gen.raised THEN <<>> ELSE gen.text,
                  search |-> NoSearch, searched |-> FALSE,
                  logArgs |-> <<>>, storeOk |-> TRUE, crashed |-> FALSE]
    /\ UNCHANGED <<parserVars, cacheVars, seedVars>>

----------------------------------------------------------------------------
\* The response parser on every text up to MaxLen chunks.

Chunks == {SENTINEL, SPACE, NL, "a"}
Texts == SeqsUpTo(Chunks, MaxLen)

Pending == [status |-> "pending", query |-> <<>>]

ParseText ==
    /\ pResult = Pending
    /\ pResult' = ParseResponse(pText)
    /\ UNCHANGED <<pText, chatVars, cacheVars, seedVars>>

----------------------------------------------------------------------------
\* get_user_data behind @st.cache_data(ttl=600).

ttl == 600

\* Seconds that may pass between two events.
Ticks == {299, 300}

\* A cache entry of the user id that is younger than ttl
CacheLookup_shared(c, user_id, now) ==
    LET fresh == {u \in UserIds : c[u] # None /\ now - c[u][1].at < ttl}
    IN IF fresh # {} THEN Some(c[CHOOSE u \in fresh : TRUE][1].value) ELSE None

\* The entry cached for these arguments, while it is younger than ttl.
CacheLookup(c, user_id, now) ==
    IF c[user_id] # None /\ now - c[user_id][1].at < ttl
    THEN Some(c[user_id][1].value)
    ELSE None

\* A call of the decorated get_user_data(user_id): a cache hit returns the
\* stored return value; otherwise the body runs against the spreadsheet and
\* its return value, (None, None) included, is stored with the time.
GetUserData ==
    \E user_id \in UserIds :
        LET hit == CacheLookup(cache, user_id, clock)
            value == IF hit # None THEN hit[1] ELSE FetchUserData(store, user_id)
            entry == Some([value |-> value, at |-> clock])
        IN /\ cache' = IF hit # None THEN cache ELSE [cache EXCEPT ![user_id] = entry]
           /\ fetched' = IF hit # None THEN fetched ELSE [fetched EXCEPT ![user_id] = entry]
           /\ lastGet' = [called |-> TRUE, user_id |-> user_id, ret |-> value,
                          contacted |-> (hit = None), at |-> clock,
                          prev |-> fetched[user_id]]
           /\ UNCHANGED <<clock, store, chatVars, parserVars, seedVars>>

\* Time passes.
Tick ==
    \E d \in Ticks :
        /\ clock + d <= MaxClock
        /\ clock' = clock + d
        /\ UNCHANGED <<store, cache, fetched, lastGet, chatVars, parserVars, seedVars>>

\* The spreadsheet is edited, re-seeded or becomes unreachable.
ExternalEdit ==
    \E s \in Stores \ {store} :
        /\ store' = s
        /\ UNCHANGED <<clock, cache, fetched, lastGet, chatVars, parserVars, seedVars>>

----------------------------------------------------------------------------
\* seed_data.py

SERVICE_ACCOUNT_EMAIL == "derma-ai@project.iam.gserviceaccount.com"

Worksheet(title, rows) == [title |-> title, rows |-> rows]

DefaultSheet == Worksheet("Sheet1", <<>>)

\* The worksheets seed_data adds, in order, with the rows it writes to each.
SeedWorksheets ==
    <<Worksheet("users", <<"users_header", "users_row">>),
      Worksheet("skin_profile", <<"skin_profile_header", "skin_profile_row">>),
      Worksheet("routine_audit", <<"routine_audit_header", "routine_audit_row">>),
      Worksheet("interaction_logs", <<"interaction_logs_header">>)>>

HasTitle(ws, title) == \E i \in 1..Len(ws) : ws[i].title = title

\* sheet.del_worksheet: the service refuses to delete the last worksheet of a
\* spreadsheet; otherwise the worksheet is removed.
del_worksheet(ws, title) ==
    IF Len(ws) <= 1 \/ ~HasTitle(ws, title)
    THEN [ok |-> FALSE, ws |-> ws]
    ELSE [ok |-> TRUE, ws |-> SelectSeq(ws, LAMBDA w : w.title # title)]

\* sheet.add_worksheet followed by update: the service refuses a title that
\* is already in use.
add_worksheet(ws, w) ==
    IF HasTitle(ws, w.title)
    THEN [ok |-> FALSE, ws |-> ws]
    ELSE [ok |-> TRUE, ws |-> Append(ws, w)]

\* Lines 51-56: every worksheet of the listing but "Sheet1" is deleted; a
\* failed deletion is reported and the loop goes on.
RECURSIVE ClearWorksheets(_, _)
ClearWorksheets(listing, ws) ==
    IF listing = <<>> THEN ws
    ELSE IF Head(listing).title = "Sheet1" THEN ClearWorksheets(Tail(listing), ws)
    ELSE ClearWorksheets(Tail(listing), del_worksheet(ws, Head(listing).title).ws)

\* Lines 87-110: the worksheets are added one after the other; the exception
\* of a refused add_worksheet is not caught and ends the run.
RECURSIVE AddWorksheets(_, _)
AddWorksheets(todo, ws) ==
    IF todo = <<>> THEN [completed |-> TRUE, ws |-> ws]
    ELSE LET r == add_worksheet(ws, Head(todo))
         IN IF r.ok THEN AddWorksheets(Tail(todo), r.ws)
            ELSE [completed |-> FALSE, ws |-> ws]

\* One run of seed_data().  secretsEmail is what reading secrets.toml gives:
\* the service account email, or None when the file or the key is missing.
SeedData ==
    /\ seedRuns < MaxSeedRuns
    /\ seedRuns' = seedRuns + 1
    /\ \E authOk \in BOOLEAN, secretsEmail \in {None, Some(SERVICE_ACCOUNT_EMAIL)},
          shareOk \in BOOLEAN :
         IF ~authOk
         THEN \* lines 28-32: authentication failed, return
              /\ sheet' = sheet
              /\ seedRun' = [ran |-> TRUE, authed |-> FALSE, found |-> sheet # None,
                             completed |-> FALSE, before |-> sheet]
         ELSE IF sheet = None
         THEN \* lines 57-60 create the spreadsheet; service_account_email was
              \* never assigned, so line 65 raises UnboundLocalError, the handler
              \* at line 80 catches it and line 82 raises it again, uncaught.
              /\ sheet' = Some([worksheets |-> <<DefaultSheet>>, shared |-> FALSE])
              /\ seedRun' = [ran |-> TRUE, authed |-> TRUE, found |-> FALSE,
                             completed |-> FALSE, before |-> sheet]
         ELSE LET cleared == ClearWorksheets(sheet[1].worksheets, sheet[1].worksheets)
                  shared == sheet[1].shared \/ (secretsEmail # None /\ shareOk)
                  added == AddWorksheets(SeedWorksheets, cleared)
                  \* lines 112-116
                  final == IF added.completed
                           THEN del_worksheet(added.ws, "Sheet1").ws ELSE added.ws
              IN /\ sheet' = Some([worksheets |-> final, shared |-> shared])
                 /\ seedRun' = [ran |-> TRUE, authed |-> TRUE, found |-> TRUE,
                                completed |-> added.completed, before |-> sheet]
    /\ UNCHANGED <<chatVars, parserVars, cacheVars>>

\* The app's log_interaction against this spreadsheet (app.py lines 76-88):
\* a row is appended to the interaction_logs worksheet when there is one.
AppendLogRow ==
    /\ sheet # None
    /\ \E i \in 1..Len(sheet[1].worksheets) :
         /\ sheet[1].worksheets[i].title = "interaction_logs"
         /\ Len(sheet[1].worksheets[i].rows) < 1 + MaxLogRows
         /\ sheet' = Some([sheet[1] EXCEPT
                              !.worksheets[i].rows = Append(@, "log_row")])
    /\ UNCHANGED <<seedRuns, seedRun, chatVars, parserVars, cacheVars>>

----------------------------------------------------------------------------
\* Initial states and specifications.

NoGet == [called |-> FALSE]
NoSeedRun == [ran |-> FALSE]

InitChat ==
    /\ messages = <<>>
    /\ logs = <<>>
    /\ turns = 0
    /\ lastTurn = NoTurn

InitParserIdle ==
    /\ pText = <<>>
    /\ pResult = Pending

InitCache ==
    /\ clock = 0
    /\ store = StoreSeeded
    /\ cache = [u \in UserIds |-> None]
    /\ fetched = [u \in UserIds |-> None]
    /\ lastGet = NoGet

InitSeed ==
    /\ sheet = None
    /\ seedRuns = 0
    /\ seedRun = NoSeedRun

Init == InitChat /\ InitParserIdle /\ InitCache /\ InitSeed

Next == TextTurn \/ ImageTurn

Spec == Init /\ [][Next]_vars

InitParser ==
    /\ InitChat /\ InitCache /\ InitSeed
    /\ pText \in Texts
    /\ pResult = Pending

NextParser == ParseText

SpecParser == InitParser /\ [][NextParser]_vars


----------------------------------------------------------------------------
\* Claims about the chat script (specification Spec).

TextTurnDone == lastTurn.kind = "text"
TurnDone == lastTurn.kind \in {"text", "image"}

\* The transcript as it stood when the latest turn appended the user message.
WithUserMessage == Append(lastTurn.before, UserMessage(lastTurn.prompt))

\* C1: every user turn, text or image, calls log_interaction exactly once.
C1_OneLogCallPerTurn ==
    TurnDone => Len(lastTurn.logArgs) = 1

\* C2: on a text turn the endpoint receives the prior messages in order and
\* then the new user text once: start_chat's history followed by the message
\* of send_message is the prior transcript followed by the new user message.
C2_HistoryThenNewTextOnce ==
    TextTurnDone =>
        lastTurn.sentHistory \o <<[role |-> "user", parts |-> lastTurn.sentParts]>>
            = GeminiHistory(WithUserMessage)

\* C3: on a text turn with a loaded profile, the system prompt built by
\* construct_system_prompt is part of what is passed to the endpoint.
C3_SystemPromptSent ==
    (TextTurnDone /\ lastTurn.profile # None) =>
        \/ \E i \in 1..Len(lastTurn.sentParts) :
              lastTurn.sentParts[i] = lastTurn.system_prompt
        \/ \E i \in 1..Len(lastTurn.sentHistory) :
              lastTurn.sentHistory[i].parts = <<lastTurn.system_prompt>>
        \/ lastTurn.sentParts = lastTurn.system_prompt

\* C4: a completed text turn stores the user message, then the generated
\* response, then (only when a link was resolved) the product message.
C4_ConversationOrder ==
    (TextTurnDone /\ ~lastTurn.crashed) =>
        LET n == Len(lastTurn.before)
        IN /\ Len(messages) \in {n + 2, n + 3}
           /\ SubSeq(messages, 1, n) = lastTurn.before
           /\ messages[n + 1] = UserMessage(lastTurn.prompt)
           /\ messages[n + 2] = AssistantMessage(lastTurn.full_response)

\* The search of the latest turn returned no result: the call raised, or none
\* of the results is an amazon.ca link with /dp/ in it.
SearchFoundNothing ==
    /\ TextTurnDone
    /\ lastTurn.searched
    /\ \/ lastTurn.search.raised
       \/ \A i \in 1..Len(lastTurn.search.results) :
             ~(Contains(lastTurn.search.results[i], "amazon.ca")
               /\ Contains(lastTurn.search.results[i], "/dp/"))

RowLogged == lastTurn.logArgs # <<>> /\ lastTurn.storeOk

\* C6 as stated: when the triggered search returns no result, the logged row
\* has neither product field populated.
C6_NoProductFields ==
    (SearchFoundNothing /\ RowLogged) =>
        /\ Last(logs).product_name = None
        /\ Last(logs).product_link = None

\* C6 as amended: when the triggered search returns no result, the logged row
\* has product_link unpopulated and product_name holding the search query.
C6_QueryLoggedWithoutLink ==
    (SearchFoundNothing /\ RowLogged) =>
        /\ Last(logs).product_link = None
        /\ Last(logs).product_name = Some(ParseResponse(lastTurn.full_response).query)
        /\ Last(logs).severity = 5

C6_Witness ==
    /\ SearchFoundNothing /\ RowLogged
    /\ ~lastTurn.search.raised
    /\ lastTurn.search.results # <<>>

\* C7: when the generation call raises, the turn does not abort, the reply
\* recorded in the transcript is the fixed apology, and a text turn is logged.
C7_FallbackRecorded ==
    (TurnDone /\ lastTurn.genRaised) =>
        /\ ~lastTurn.crashed
        /\ Len(messages) > Len(lastTurn.before)
        /\ Last(messages) = AssistantMessage(FALLBACK)
        /\ (TextTurnDone => Len(lastTurn.logArgs) = 1)

\* C8: when the store append inside log_interaction fails, log_interaction
\* returns without raising and is called once, and the turn appends the
\* assistant's response exactly as a turn whose logging succeeded does.
C8_LogFailureDoesNotAbort ==
    (TextTurnDone /\ lastTurn.logArgs # <<>> /\ ~lastTurn.storeOk) =>
        /\ ~lastTurn.crashed
        /\ Len(lastTurn.logArgs) = 1
        /\ Last(messages) = AssistantMessage(lastTurn.full_response)
        /\ messages = AfterGeneration(WithUserMessage, <<>>, lastTurn.prompt,
                                      lastTurn.full_response, lastTurn.search,
                                      TRUE).messages

C8_Witness ==
    /\ TextTurnDone /\ lastTurn.logArgs # <<>> /\ ~lastTurn.storeOk
    /\ Len(lastTurn.before) > 0

----------------------------------------------------------------------------
\* Claims about the response parser (specification SpecParser).

\* The parser the specification describes: the first line that begins with
\* the token, its leading token and the surrounding whitespace removed;
\* no-query when no line begins with it.
RefParse(t) ==
    LET lines == SelectSeq(Split(t), LAMBDA line : Len(line) >= 1 /\ line[1] = SENTINEL)
    IN IF lines = <<>> THEN NoQuery
       ELSE [status |-> "query", query |-> Strip(Tail(lines[1]))]

\* C5: the query derived from a response is that of the reference parser, and
\* a response with no line beginning with the token yields no-query.
C5_ParserMatchesReference ==
    pResult # Pending => pResult = RefParse(pText)


NextCache == GetUserData \/ Tick \/ ExternalEdit

SpecCache == Init /\ [][NextCache]_vars

NextSeed == SeedData \/ AppendLogRow

SpecSeed == Init /\ [][NextSeed]_vars

----------------------------------------------------------------------------
\* Claims about the profile cache (specification SpecCache).

\* C9: a call made less than ttl seconds after the latest store-contacting
\* call for the same user id returns what that call returned and does not
\* contact the store; any other call contacts the store.  The latest
\* store-contacting call is looked up by user id alone.
C9_CachedWithinTtl ==
    lastGet.called =>
        IF lastGet.prev # None /\ lastGet.at - lastGet.prev[1].at < 600
        THEN ~lastGet.contacted /\ lastGet.ret = lastGet.prev[1].value
        ELSE /\ lastGet.contacted
             /\ lastGet.ret = fetched[lastGet.user_id][1].value

\* A hit that returns a value the spreadsheet no longer holds.
C9_Witness ==
    /\ lastGet.called /\ ~lastGet.contacted
    /\ lastGet.at > lastGet.prev[1].at
    /\ clock = lastGet.at
    /\ lastGet.ret # FetchUserData(store, lastGet.user_id)

----------------------------------------------------------------------------
\* Claims about seed_data (specification SpecSeed).

\* C10: once authentication succeeds, a run of seed_data reaches the end of
\* the seeding steps, from an absent spreadsheet as from one a previous run
\* left, and the spreadsheet then holds exactly the four seeded worksheets.
C10_SeedCompletes ==
    (seedRun.ran /\ seedRun.authed) =>
        /\ seedRun.completed
        /\ sheet # None
        /\ Len(sheet[1].worksheets) = 4
        /\ \A i \in 1..4 : \E j \in 1..4 : sheet[1].worksheets[j] = SeedWorksheets[i]

====
